---- MODULE Spec2Model ----
(***************************************************************************)
(* Model of verified-badge.js: the Verification Request Widget.            *)
(*                                                                         *)
(* Field values are sequences of one-character strings, so that trim(),    *)
(* the email pattern and the URL check are computed character by           *)
(* character.  Display strings (messages, labels) are TLA+ strings.        *)
(***************************************************************************)
EXTENDS Naturals, Integers, Sequences, FiniteSets, TLC

(***************************************************************************)
(* Bounds of the model.                                                    *)
(***************************************************************************)
MaxWidgets == 2
MaxEvents == 5

WidgetIds == 1..MaxWidgets

(***************************************************************************)
(* The document: the elements getElementById can find.                     *)
(***************************************************************************)
ContainerIds == {"verified-badge-container", "c2"}

(***************************************************************************)
(* const defaults (the em dash of successMessage is written "-")           *)
(***************************************************************************)
defaults ==
  [endpoint |-> "https://example.com/verify-request",
   containerId |-> "verified-badge-container",
   submitText |-> "Request Verification",
   successMessage |-> "Request submitted - we will review and contact you.",
   errorMessage |-> "There was a problem submitting your request. Please try again later.",
   requireFile |-> FALSE]

\* The option objects callers pass to initVerifiedBadge in this model.
NoOptions == [k \in {} |-> ""]
OptionSets ==
  {NoOptions,
   [containerId |-> "c2", submitText |-> "Send", requireFile |-> TRUE],
   [containerId |-> "no-such-element"]}

\* Object.assign({}, defaults, options): later sources override earlier ones.
MergeConfig(d, o) ==
  [k \in (DOMAIN d) \cup (DOMAIN o) |-> IF k \in DOMAIN o THEN o[k] ELSE d[k]]

(***************************************************************************)
(* String helpers over character sequences.                                *)
(***************************************************************************)
IsSpace(c) == c \in {" ", "\t", "\n"}

RECURSIVE trimStart(_)
trimStart(s) ==
  IF s = <<>> THEN <<>>
  ELSE IF IsSpace(Head(s)) THEN trimStart(Tail(s)) ELSE s

RECURSIVE trimEnd(_)
trimEnd(s) ==
  IF s = <<>> THEN <<>>
  ELSE IF IsSpace(s[Len(s)]) THEN trimEnd(SubSeq(s, 1, Len(s) - 1)) ELSE s

\* String.prototype.trim
trim(s) == trimEnd(trimStart(s))

\* [^\s@]+ : a non-empty run of characters that are neither space nor "@"
IsLocalRun(s) ==
  /\ Len(s) >= 1
  /\ \A i \in 1..Len(s) : ~IsSpace(s[i]) /\ s[i] # "@"

\* /^[^\s@]+@[^\s@]+\.[^\s@]+$/.test(email)
isValidEmail(email) ==
  \E i \in 1..Len(email) : \E j \in 1..Len(email) :
    /\ i < j
    /\ email[i] = "@"
    /\ email[j] = "."
    /\ IsLocalRun(SubSeq(email, 1, i - 1))
    /\ IsLocalRun(SubSeq(email, i + 1, j - 1))
    /\ IsLocalRun(SubSeq(email, j + 1, Len(email)))

(***************************************************************************)
(* new URL(url) without a base, for inputs over the alphabet of letters,   *)
(* ":", "/", "." and space: the parser strips surrounding spaces, reads a  *)
(* scheme (a letter, then letters, up to the first ":"), lower-cases it,   *)
(* and for the special schemes skips the slashes and requires a non-empty  *)
(* host without spaces.  UrlParse returns the protocol, or "" for a        *)
(* TypeError.                                                              *)
(***************************************************************************)
Letters == {"a", "b", "c", "f", "h", "p", "s", "t", "H", "T", "P", "S", "A"}
Lower(c) ==
  CASE c = "H" -> "h" [] c = "T" -> "t" [] c = "P" -> "p" [] c = "S" -> "s"
    [] c = "A" -> "a" [] OTHER -> c

RECURSIVE Concat(_)
Concat(s) == IF s = <<>> THEN "" ELSE Head(s) \o Concat(Tail(s))

RECURSIVE skipSlashes(_)
skipSlashes(s) ==
  IF s # <<>> /\ Head(s) = "/" THEN skipSlashes(Tail(s)) ELSE s

RECURSIVE hostOf(_)
hostOf(s) ==
  IF s = <<>> \/ Head(s) = "/" THEN <<>> ELSE <<Head(s)>> \o hostOf(Tail(s))

SpecialSchemes == {"http", "https", "ftp"}

UrlParse(url) ==
  LET u == trim(url)
      colons == {i \in 1..Len(u) : u[i] = ":"}
  IN IF colons = {} THEN ""
     ELSE LET c == CHOOSE i \in colons : \A k \in colons : i <= k
              schemeChars == SubSeq(u, 1, c - 1)
              scheme == Concat([i \in 1..(c - 1) |-> Lower(u[i])])
              rest == SubSeq(u, c + 1, Len(u))
              host == hostOf(skipSlashes(rest))
          IN IF schemeChars = <<>> \/ \E i \in 1..(c - 1) : u[i] \notin Letters
               THEN ""
             ELSE IF scheme \in SpecialSchemes
                       /\ (host = <<>> \/ \E i \in 1..Len(host) : host[i] \notin Letters \cup {"."})
               THEN ""
             ELSE scheme \o ":"

\* isValidURL: protocol is http: or https:, any TypeError gives false
isValidURL(url) ==
  LET protocol == UrlParse(url)
  IN protocol = "http:" \/ protocol = "https:"

(***************************************************************************)
(* The form: the inputs a click handler gathers into fakeForm.  A field    *)
(* holds the input's value; supportFile holds the number of selected       *)
(* files, or NoFileInput when the form has no file input (querySelector    *)
(* gives null unless config.requireFile built one).                        *)
(***************************************************************************)
NoFileInput == -1

SpamError == "Spam detected."
NameError == "Page name is required."
UrlError == "Page URL is invalid."
EmailError == "Contact email is invalid."

\* validateForm that returns at the first error found
validateFormFirstOnly(form, config) ==
  LET e == IF trim(form.hp_fullname) # <<>> THEN <<SpamError>>
           ELSE IF trim(form.pageName) = <<>> THEN <<NameError>>
           ELSE IF ~isValidURL(trim(form.pageUrl)) THEN <<UrlError>>
           ELSE IF ~isValidEmail(trim(form.contactEmail)) THEN <<EmailError>>
           ELSE <<>>
  IN [ok |-> Len(e) = 0, errors |-> e]

\* validateForm with the push of the file rule in force
validateFormFileRequired(form, config) ==
  LET e1 == IF trim(form.hp_fullname) # <<>> THEN <<SpamError>> ELSE <<>>
      e2 == IF trim(form.pageName) = <<>> THEN Append(e1, NameError) ELSE e1
      e3 == IF ~isValidURL(trim(form.pageUrl)) THEN Append(e2, UrlError) ELSE e2
      e4 == IF ~isValidEmail(trim(form.contactEmail)) THEN Append(e3, EmailError) ELSE e3
      e5 == IF config.requireFile /\ form.supportFile # NoFileInput /\ form.supportFile = 0
              THEN Append(e4, "Supporting document is required.") ELSE e4
  IN [ok |-> Len(e5) = 0, errors |-> e5]

\* validateForm(form, config): returns {ok, errors}
validateForm(form, config) ==
  LET e1 == IF trim(form.hp_fullname) # <<>> THEN <<SpamError>> ELSE <<>>
      e2 == IF trim(form.pageName) = <<>> THEN Append(e1, NameError) ELSE e1
      e3 == IF ~isValidURL(trim(form.pageUrl)) THEN Append(e2, UrlError) ELSE e2
      e4 == IF ~isValidEmail(trim(form.contactEmail)) THEN Append(e3, EmailError) ELSE e3
      \* the file rule: its condition is computed, its push is commented out
      e5 == IF config.requireFile /\ form.supportFile # NoFileInput /\ form.supportFile = 0
              THEN e4 ELSE e4
  IN [ok |-> Len(e5) = 0, errors |-> e5]

\* Array.prototype.join(sep) on an array of strings
RECURSIVE Join(_, _)
Join(a, sep) ==
  IF a = <<>> THEN ""
  ELSE IF Len(a) = 1 THEN a[1]
  ELSE a[1] \o sep \o Join(Tail(a), sep)

\* A template line is a sequence of segments: literal text or field characters.
Lit(text) == [lit |-> text, chars |-> <<>>]
Val(chars) == [lit |-> "", chars |-> chars]

\* generateEmailTemplate(form): the lines that are joined with "\n"
generateEmailTemplate(form) ==
  LET pageName == trim(form.pageName)
      pageUrl == trim(form.pageUrl)
      contactEmail == trim(form.contactEmail)
      metaId == trim(form.metaBusinessId)
      reason == trim(form.reason)
  IN << <<Lit("Subject: Request for Verified Badge - "), Val(pageName)>>,
        <<Lit("To: support@facebook.com (or your account manager)")>>,
        <<>>,
        <<Lit("Hello Facebook Support Team,")>>,
        <<>>,
        <<Lit("I am writing on behalf of the Facebook Page \""), Val(pageName),
          Lit("\". We would like to request a Verified Badge for the Page to confirm its authenticity and help our audience find us more easily.")>>,
        <<>>,
        <<Lit("Page URL: "), Val(pageUrl)>>,
        <<Lit("Contact email: "), Val(contactEmail)>>,
        <<Lit("Meta Business ID: "),
          IF metaId # <<>> THEN Val(metaId) ELSE Lit("(not provided)")>>,
        <<>>,
        <<Lit("Why verification is needed:")>>,
        <<IF reason # <<>> THEN Val(reason)
          ELSE Lit("- We represent a recognized brand and want to protect our audience from impersonation.")>>,
        <<>>,
        <<Lit("Attached are supporting documents (if any). Please let me know if you need additional verification or documentation.")>>,
        <<>>,
        <<Lit("Thank you and best regards,")>>,
        <<Lit("[Your full name]")>>,
        <<Lit("[Your role - e.g., Page Admin]")>>,
        <<Lit("[Phone number - optional]")>> >>

\* a Submission Record built from the untrimmed values
BuildDataUntrimmed(form) ==
  [pageName |-> form.pageName,
   pageUrl |-> form.pageUrl,
   contactEmail |-> form.contactEmail,
   metaBusinessId |-> form.metaBusinessId,
   reason |-> form.reason,
   submittedAt |-> "new Date().toISOString()"]

\* the Submission Record built by submitRequest
BuildData(form) ==
  [pageName |-> trim(form.pageName),
   pageUrl |-> trim(form.pageUrl),
   contactEmail |-> trim(form.contactEmail),
   metaBusinessId |-> trim(form.metaBusinessId),
   reason |-> trim(form.reason),
   submittedAt |-> "new Date().toISOString()"]

(***************************************************************************)
(* Field values a user (or a bot) types.                                   *)
(***************************************************************************)
EmptyForm ==
  [pageName |-> <<>>, pageUrl |-> <<>>, contactEmail |-> <<>>,
   metaBusinessId |-> <<>>, reason |-> <<>>, hp_fullname |-> <<>>,
   supportFile |-> NoFileInput]

GoodName == <<" ", "A", " ">>
GoodUrl == <<" ", "h", "t", "t", "p", "s", ":", "/", "/", "a", ".", "b", " ">>
GoodEmail == <<" ", "a", "@", "b", ".", "c", " ">>
FtpUrl == <<"f", "t", "p", ":", "/", "/", "b">>
BadEmail == <<"a", "@", "b">>
BotName == <<"B", "o", "t">>

\* what Edit types in the widget model: whole forms
Forms ==
  {[EmptyForm EXCEPT !.pageName = GoodName, !.pageUrl = GoodUrl, !.contactEmail = GoodEmail,
                     !.supportFile = 0],
   [EmptyForm EXCEPT !.pageName = <<" ">>, !.pageUrl = FtpUrl, !.contactEmail = GoodEmail,
                     !.metaBusinessId = <<"7">>, !.supportFile = 1],
   [EmptyForm EXCEPT !.pageName = GoodName, !.pageUrl = GoodUrl, !.contactEmail = GoodEmail,
                     !.reason = <<"r">>, !.hp_fullname = BotName, !.supportFile = 1]}

\* what the validator is applied to in the validator model: all combinations
NameVals == {<<>>, <<" ">>, <<"A">>, GoodName}
UrlVals ==
  {<<>>, <<"a">>, FtpUrl, GoodUrl,
   <<"h", "t", "t", "p", ":", "/", "/", "a">>,
   <<"H", "T", "T", "P", ":", "/", "/", "a">>,
   <<"h", "t", "t", "p", ":", "/", "/">>,
   <<"h", "t", "t", "p", ":", "/", "/", "a", " ", "b">>}
EmailVals ==
  {<<>>, BadEmail, GoodEmail,
   <<"a", "@", "b", ".", "c">>,
   <<"a", " ", "@", "b", ".", "c">>,
   <<"a", "@", "@", "b", ".", "c">>,
   <<"a", "@", "b", ".">>,
   <<"a", "@", ".", "c">>}
HoneypotVals == {<<>>, <<" ">>, BotName}
ValForms ==
  {[EmptyForm EXCEPT !.pageName = n, !.pageUrl = u, !.contactEmail = e,
                     !.hp_fullname = h, !.supportFile = f] :
     n \in NameVals, u \in UrlVals, e \in EmailVals, h \in HoneypotVals,
     f \in {NoFileInput, 0, 1}}

(***************************************************************************)
(* State.                                                                  *)
(*   defaultsObj  the module-scope defaults object                         *)
(*   nCalls    number of initVerifiedBadge calls made; call w creates      *)
(*             widget w                                                    *)
(*   handle    what call w returned                                        *)
(*   children  child nodes of each container element, in document order    *)
(*   msg       the .vb-message element of each container (NoMsg: none)     *)
(*   fields    the input values of each widget's formCard                  *)
(*   btn       submitBtn of each widget: disabled flag and textContent     *)
(*   tplOut    emailTpl of each widget: textContent and style.display      *)
(*   inflight  submit handlers suspended at an await, with their request   *)
(*   clip      pending navigator.clipboard.writeText promises per widget   *)
(*   issued    number of fetch calls made                                  *)
(*   passed    number of submit clicks whose validation passed             *)
(*   events    number of page and user events so far (calls of             *)
(*             initVerifiedBadge and destroy, edits, clicks)                *)
(***************************************************************************)
VARIABLES defaultsObj, nCalls, handle, children, msg, fields, btn, tplOut, inflight, clip,
          issued, passed, events

vars == <<defaultsObj, nCalls, handle, children, msg, fields, btn, tplOut, inflight, clip,
          issued, passed, events>>

\* every page or user event counts against MaxEvents
Event == events < MaxEvents /\ events' = events + 1

NotCalled == [kind |-> "none"]
Undefined == [kind |-> "undefined"]
NoMsg == [textContent |-> "", color |-> "none"]
NoButton == [disabled |-> FALSE, textContent |-> ""]
NoTpl == [textContent |-> <<>>, display |-> "none"]
FormNode(w) == [kind |-> "form", id |-> w]
MsgNode == [kind |-> "msg", id |-> 0]

InSeq(x, s) == \E i \in 1..Len(s) : s[i] = x
RemoveNode(s, x) == SelectSeq(s, LAMBDA n : n # x)

\* call w returned a handle: its handlers are wired
Wired(w) == handle[w].kind = "handle"
configOf(w) == handle[w].config
containerOf(w) == handle[w].container
\* the formCard of widget w is in the document
Mounted(w) == Wired(w) /\ InSeq(FormNode(w), children[containerOf(w)])

\* buildForm: the submit button's text is config.submitText inside the markup
InitialLabel(config) == "\n            " \o config.submitText \o "\n          "

\* showMessage(container, text, isError)
showMessage(container, text, isError) ==
  /\ children' = [children EXCEPT ![container] =
                    IF InSeq(MsgNode, @) THEN @ ELSE Append(@, MsgNode)]
  /\ msg' = [msg EXCEPT ![container] =
               [textContent |-> text,
                color |-> IF isError THEN "crimson" ELSE "green"]]

Init ==
  /\ defaultsObj = defaults
  /\ nCalls = 0
  /\ handle = [w \in WidgetIds |-> NotCalled]
  /\ children = [c \in ContainerIds |-> <<>>]
  /\ msg = [c \in ContainerIds |-> NoMsg]
  /\ fields = [w \in WidgetIds |-> EmptyForm]
  /\ btn = [w \in WidgetIds |-> NoButton]
  /\ tplOut = [w \in WidgetIds |-> NoTpl]
  /\ inflight = {}
  /\ clip = [w \in WidgetIds |-> 0]
  /\ issued = 0
  /\ passed = 0
  /\ events = 0

\* initVerifiedBadge(options) where the container is missing and the early
\* return is replaced by the return of a handle
InitNoContainerReturnsHandle(options) ==
  LET w == nCalls + 1
      config == MergeConfig(defaultsObj, options)
  IN /\ nCalls < MaxWidgets
     /\ config.containerId \notin ContainerIds
     /\ Event
     /\ nCalls' = w
     /\ handle' = [handle EXCEPT ![w] =
                     [kind |-> "handle", config |-> config,
                      container |-> config.containerId]]
     /\ UNCHANGED <<defaultsObj, children, msg, fields, btn, tplOut, inflight, clip, issued, passed>>

\* initVerifiedBadge(options) where the container is missing: logs, returns
InitNoContainer(options) ==
  LET w == nCalls + 1
      config == MergeConfig(defaultsObj, options)
  IN /\ nCalls < MaxWidgets
     /\ config.containerId \notin ContainerIds
     /\ Event
     /\ nCalls' = w
     /\ handle' = [handle EXCEPT ![w] = Undefined]
     /\ UNCHANGED <<defaultsObj, children, msg, fields, btn, tplOut, inflight, clip, issued, passed>>

\* initVerifiedBadge(options) with Object.assign(defaults, options): the
\* options are written into the defaults object
InitMountAssignsDefaults(options) ==
  LET w == nCalls + 1
      config == MergeConfig(defaultsObj, options)
      container == config.containerId
  IN /\ nCalls < MaxWidgets
     /\ container \in ContainerIds
     /\ Event
     /\ nCalls' = w
     /\ defaultsObj' = config
     /\ handle' = [handle EXCEPT ![w] =
                     [kind |-> "handle", config |-> config, container |-> container]]
     /\ children' = [children EXCEPT ![container] = Append(@, FormNode(w))]
     /\ fields' = [fields EXCEPT ![w] =
                     [EmptyForm EXCEPT !.supportFile =
                        IF config.requireFile THEN 0 ELSE NoFileInput]]
     /\ btn' = [btn EXCEPT ![w] =
                  [disabled |-> FALSE, textContent |-> InitialLabel(config)]]
     /\ tplOut' = [tplOut EXCEPT ![w] = NoTpl]
     /\ UNCHANGED <<msg, inflight, clip, issued, passed>>

\* initVerifiedBadge(options): builds and mounts the form, wires the controls
InitMount(options) ==
  LET w == nCalls + 1
      config == MergeConfig(defaultsObj, options)
      container == config.containerId
  IN /\ nCalls < MaxWidgets
     /\ container \in ContainerIds
     /\ Event
     /\ nCalls' = w
     /\ handle' = [handle EXCEPT ![w] =
                     [kind |-> "handle", config |-> config, container |-> container]]
     /\ children' = [children EXCEPT ![container] = Append(@, FormNode(w))]
     /\ fields' = [fields EXCEPT ![w] =
                     [EmptyForm EXCEPT !.supportFile =
                        IF config.requireFile THEN 0 ELSE NoFileInput]]
     /\ btn' = [btn EXCEPT ![w] =
                  [disabled |-> FALSE, textContent |-> InitialLabel(config)]]
     /\ tplOut' = [tplOut EXCEPT ![w] = NoTpl]
     /\ UNCHANGED <<defaultsObj, msg, inflight, clip, issued, passed>>

initVerifiedBadge(options) == InitNoContainer(options) \/ InitMount(options)

\* the user (or a bot) changes the inputs of a mounted form
Edit(w, form) ==
  /\ Mounted(w)
  /\ Event
  /\ fields' = [fields EXCEPT ![w] =
                  [form EXCEPT !.supportFile =
                     IF configOf(w).requireFile THEN form.supportFile ELSE NoFileInput]]
  /\ UNCHANGED <<defaultsObj, nCalls, handle, children, msg, btn, tplOut, inflight, clip, issued, passed>>

\* submit click, validation fails, the return is missing: the errors are
\* shown and the request is sent all the same
SubmitInvalidNoReturn(w) ==
  LET v == validateForm(fields[w], configOf(w))
  IN /\ Mounted(w)
     /\ ~btn[w].disabled
     /\ ~v.ok
     /\ Event
     /\ showMessage(containerOf(w), Join(v.errors, " "), TRUE)
     /\ btn' = [btn EXCEPT ![w] = [disabled |-> TRUE, textContent |-> "Sending..."]]
     /\ inflight' = inflight \cup
          {[id |-> issued + 1, widget |-> w, stage |-> "fetch",
            endpoint |-> configOf(w).endpoint, method |-> "POST",
            data |-> BuildData(fields[w])]}
     /\ issued' = issued + 1
     /\ UNCHANGED <<defaultsObj, nCalls, handle, fields, tplOut, clip, passed>>

\* submit click, validation fails: show the joined errors and return
SubmitInvalid(w) ==
  LET v == validateForm(fields[w], configOf(w))
  IN /\ Mounted(w)
     /\ ~btn[w].disabled
     /\ ~v.ok
     /\ Event
     /\ showMessage(containerOf(w), Join(v.errors, " "), TRUE)
     /\ UNCHANGED <<defaultsObj, nCalls, handle, fields, btn, tplOut, inflight, clip, issued, passed>>

\* submit click, validation passes, the button is left enabled
SubmitValidNoDisable(w) ==
  LET v == validateForm(fields[w], configOf(w))
  IN /\ Mounted(w)
     /\ ~btn[w].disabled
     /\ v.ok
     /\ Event
     /\ inflight' = inflight \cup
          {[id |-> issued + 1, widget |-> w, stage |-> "fetch",
            endpoint |-> configOf(w).endpoint, method |-> "POST",
            data |-> BuildData(fields[w])]}
     /\ issued' = issued + 1
     /\ passed' = passed + 1
     /\ UNCHANGED <<defaultsObj, nCalls, handle, children, msg, fields, btn, tplOut, clip>>

\* submit click, validation passes: disable the button and run submitRequest
\* up to its await of fetch
SubmitValid(w) ==
  LET v == validateForm(fields[w], configOf(w))
  IN /\ Mounted(w)
     /\ ~btn[w].disabled
     /\ v.ok
     /\ Event
     /\ btn' = [btn EXCEPT ![w] = [disabled |-> TRUE, textContent |-> "Sending..."]]
     /\ inflight' = inflight \cup
          {[id |-> issued + 1, widget |-> w, stage |-> "fetch",
            endpoint |-> configOf(w).endpoint, method |-> "POST",
            data |-> BuildData(fields[w])]}
     /\ issued' = issued + 1
     /\ passed' = passed + 1
     /\ UNCHANGED <<defaultsObj, nCalls, handle, children, msg, fields, tplOut, clip>>

\* a disabled button dispatches no click event
SubmitClick(w) == SubmitInvalid(w) \/ SubmitValid(w)

\* the tail of the submit handler, re-enabling without restoring the label
ReenableKeepsLabel(r) ==
  btn' = [btn EXCEPT ![r.widget] = [disabled |-> FALSE, textContent |-> @.textContent]]

\* the tail of the submit handler after await submitRequest(...)
Reenable(r) ==
  btn' = [btn EXCEPT ![r.widget] =
            [disabled |-> FALSE, textContent |-> configOf(r.widget).submitText]]

\* fetch resolves with res.ok
FetchOk(r) ==
  /\ r \in inflight
  /\ r.stage = "fetch"
  /\ showMessage(containerOf(r.widget), configOf(r.widget).successMessage, FALSE)
  /\ inflight' = inflight \ {r}
  /\ Reenable(r)
  /\ UNCHANGED <<defaultsObj, nCalls, handle, fields, tplOut, clip, issued, passed, events>>

\* fetch resolves with a non-success status: await res.text()
FetchNotOk(r) ==
  /\ r \in inflight
  /\ r.stage = "fetch"
  /\ inflight' = (inflight \ {r}) \cup {[r EXCEPT !.stage = "text"]}
  /\ UNCHANGED <<defaultsObj, nCalls, handle, children, msg, fields, btn, tplOut, clip, issued, passed, events>>

\* fetch rejects and the request is sent again
FetchRejectRetries(r) ==
  /\ r \in inflight
  /\ r.stage = "fetch"
  /\ issued < MaxEvents
  /\ inflight' = (inflight \ {r}) \cup {[r EXCEPT !.id = issued + 1]}
  /\ issued' = issued + 1
  /\ UNCHANGED <<defaultsObj, nCalls, handle, children, msg, fields, btn, tplOut, clip, passed, events>>

\* fetch rejects and the rejection leaves the handler before its tail: the
\* message is shown, the button stays as it was
FetchRejectStaysDisabled(r) ==
  /\ r \in inflight
  /\ r.stage = "fetch"
  /\ showMessage(containerOf(r.widget), configOf(r.widget).errorMessage, TRUE)
  /\ inflight' = inflight \ {r}
  /\ UNCHANGED <<defaultsObj, nCalls, handle, fields, btn, tplOut, clip, issued, passed, events>>

\* fetch rejects: the catch block
FetchReject(r) ==
  /\ r \in inflight
  /\ r.stage = "fetch"
  /\ showMessage(containerOf(r.widget), configOf(r.widget).errorMessage, TRUE)
  /\ inflight' = inflight \ {r}
  /\ Reenable(r)
  /\ UNCHANGED <<defaultsObj, nCalls, handle, fields, tplOut, clip, issued, passed, events>>

\* res.text() settles and the thrown error is not caught: no message
TextSettleSilent(r) ==
  /\ r \in inflight
  /\ r.stage = "text"
  /\ inflight' = inflight \ {r}
  /\ Reenable(r)
  /\ UNCHANGED <<defaultsObj, nCalls, handle, children, msg, fields, tplOut, clip, issued, passed, events>>

\* res.text() settles (a rejection is caught and gives null): the error is
\* thrown and the catch block runs
TextSettle(r) ==
  /\ r \in inflight
  /\ r.stage = "text"
  /\ showMessage(containerOf(r.widget), configOf(r.widget).errorMessage, TRUE)
  /\ inflight' = inflight \ {r}
  /\ Reenable(r)
  /\ UNCHANGED <<defaultsObj, nCalls, handle, fields, tplOut, clip, issued, passed, events>>

CopiedMessage == "Email template copied to clipboard - paste into your email client."
ShownMessage == "Email template shown below. Copy manually if clipboard is blocked."

\* template click that also resets the submit button
TemplateClickResetsButton(w, hasClipboard) ==
  /\ Mounted(w)
  /\ Event
  /\ tplOut' = [tplOut EXCEPT ![w] =
                  [textContent |-> generateEmailTemplate(fields[w]), display |-> "block"]]
  /\ btn' = [btn EXCEPT ![w] =
               [disabled |-> FALSE, textContent |-> configOf(w).submitText]]
  /\ IF hasClipboard
       THEN /\ clip' = [clip EXCEPT ![w] = @ + 1]
            /\ UNCHANGED <<children, msg>>
       ELSE /\ showMessage(containerOf(w), ShownMessage, FALSE)
            /\ UNCHANGED clip
  /\ UNCHANGED <<defaultsObj, nCalls, handle, fields, inflight, issued, passed>>

\* template click; hasClipboard: navigator.clipboard.writeText exists
TemplateClick(w, hasClipboard) ==
  /\ Mounted(w)
  /\ Event
  /\ tplOut' = [tplOut EXCEPT ![w] =
                  [textContent |-> generateEmailTemplate(fields[w]), display |-> "block"]]
  /\ IF hasClipboard
       THEN /\ clip' = [clip EXCEPT ![w] = @ + 1]
            /\ UNCHANGED <<children, msg>>
       ELSE /\ showMessage(containerOf(w), ShownMessage, FALSE)
            /\ UNCHANGED clip
  /\ UNCHANGED <<defaultsObj, nCalls, handle, fields, btn, inflight, issued, passed>>

\* a writeText promise settles: then / catch
ClipSettle(w, copied) ==
  /\ clip[w] > 0
  /\ clip' = [clip EXCEPT ![w] = @ - 1]
  /\ showMessage(containerOf(w), IF copied THEN CopiedMessage ELSE ShownMessage, FALSE)
  /\ UNCHANGED <<defaultsObj, nCalls, handle, fields, btn, tplOut, inflight, issued, passed, events>>

\* handle.destroy(): container.removeChild(formCard)
destroy(w) ==
  /\ Mounted(w)
  /\ Event
  /\ children' = [children EXCEPT ![containerOf(w)] = RemoveNode(@, FormNode(w))]
  /\ UNCHANGED <<defaultsObj, nCalls, handle, msg, fields, btn, tplOut, inflight, clip, issued, passed>>

Next ==
  \/ \E o \in OptionSets : initVerifiedBadge(o)
  \/ \E w \in WidgetIds : \E f \in Forms : Edit(w, f)
  \/ \E w \in WidgetIds : SubmitClick(w)
  \/ \E r \in inflight : FetchOk(r)
  \/ \E r \in inflight : FetchNotOk(r)
  \/ \E r \in inflight : FetchReject(r)
  \/ \E r \in inflight : TextSettle(r)
  \/ \E w \in WidgetIds : \E b \in BOOLEAN : TemplateClick(w, b)
  \/ \E w \in WidgetIds : \E b \in BOOLEAN : ClipSettle(w, b)
  \/ \E w \in WidgetIds : destroy(w)

Spec == Init /\ [][Next]_vars

(***************************************************************************)
(* The validator applied to all combinations of field values: one mounted  *)
(* widget whose inputs hold any of ValForms, and its submit handler.       *)
(***************************************************************************)
ValConfigs == {MergeConfig(defaults, o) : o \in {NoOptions, [requireFile |-> TRUE]}}

ValInit ==
  /\ defaultsObj = defaults
  /\ nCalls = 1
  /\ \E config \in ValConfigs :
       handle = [w \in WidgetIds |->
                   IF w = 1 THEN [kind |-> "handle", config |-> config,
                                  container |-> config.containerId]
                   ELSE NotCalled]
  /\ children = [c \in ContainerIds |->
                   IF c = defaults.containerId THEN <<FormNode(1)>> ELSE <<>>]
  /\ msg = [c \in ContainerIds |-> NoMsg]
  /\ \E form \in ValForms :
       /\ (form.supportFile = NoFileInput) <=> ~handle[1].config.requireFile
       /\ fields = [w \in WidgetIds |-> IF w = 1 THEN form ELSE EmptyForm]
  /\ btn = [w \in WidgetIds |->
              IF w = 1 THEN [disabled |-> FALSE,
                             textContent |-> InitialLabel(handle[1].config)]
              ELSE NoButton]
  /\ tplOut = [w \in WidgetIds |-> NoTpl]
  /\ inflight = {}
  /\ clip = [w \in WidgetIds |-> 0]
  /\ issued = 0
  /\ passed = 0
  /\ events = 2

ValNext ==
  \/ \E w \in WidgetIds : SubmitClick(w)
  \/ \E r \in inflight : FetchOk(r)
  \/ \E r \in inflight : FetchNotOk(r)
  \/ \E r \in inflight : FetchReject(r)
  \/ \E r \in inflight : TextSettle(r)

ValSpec == ValInit /\ [][ValNext]_vars

(***************************************************************************)
(* The network and res.text() settle every request they were given.        *)
(***************************************************************************)
FairSpec ==
  /\ Spec
  /\ \A w \in WidgetIds :
       /\ WF_vars(\E r \in inflight :
                    r.widget = w /\ (FetchOk(r) \/ FetchNotOk(r) \/ FetchReject(r)))
       /\ WF_vars(\E r \in inflight : r.widget = w /\ TextSettle(r))

(***************************************************************************)
(* Properties.                                                             *)
(***************************************************************************)
RequestsOf(w) == {r \in inflight : r.widget = w}
Shown(text, isError) ==
  [textContent |-> text, color |-> IF isError THEN "crimson" ELSE "green"]
FormValid(w) == validateForm(fields[w], configOf(w)).ok

\* C1: at most one POST request of a widget is in flight at any time; a
\* submit click cannot start a second one while the control is disabled.
AtMostOneInFlight ==
  \A w \in WidgetIds : Cardinality(RequestsOf(w)) <= 1

\* a request is in flight, the form is still valid and mounted, and the
\* event budget would allow another click
AtMostOneInFlightWitness ==
  \E r \in inflight :
    /\ Mounted(r.widget)
    /\ btn[r.widget].disabled
    /\ FormValid(r.widget)
    /\ events < MaxEvents

\* C2: every submission that enters Submitting returns to Idle once the
\* network call has settled: the control is enabled again and its label is
\* the configured submitText.
SubmittingReturnsToIdle ==
  \A w \in WidgetIds :
    (btn[w].disabled) ~>
      (Wired(w) /\ ~btn[w].disabled /\ btn[w].textContent = configOf(w).submitText)

\* a submission that failed after a non-success status has returned to Idle
SubmittingReturnsToIdleWitness ==
  \E w \in WidgetIds :
    /\ Wired(w)
    /\ issued > 0
    /\ RequestsOf(w) = {}
    /\ ~btn[w].disabled
    /\ btn[w].textContent = configOf(w).submitText
    /\ msg[containerOf(w)] = Shown(configOf(w).errorMessage, TRUE)

\* C3: a submit click that finds the validator failing issues no request,
\* leaves the submit control enabled with its label unchanged and shows the
\* validator's messages joined by a space, in the error colour.
ValidationFailureStaysIdle ==
  [][\A w \in WidgetIds :
       (Wired(w) /\ ~FormValid(w) /\ SubmitClick(w)) =>
         /\ inflight' = inflight
         /\ issued' = issued
         /\ btn' = btn
         /\ ~btn'[w].disabled
         /\ msg'[containerOf(w)] =
              Shown(Join(validateForm(fields[w], configOf(w)).errors, " "), TRUE)]_vars

\* the three messages of an empty form are on display, nothing was sent
ValidationFailureStaysIdleWitness ==
  \E w \in WidgetIds :
    /\ Wired(w)
    /\ msg[containerOf(w)] =
         Shown("Page name is required. Page URL is invalid. Contact email is invalid.", TRUE)
    /\ issued = 0
    /\ ~btn[w].disabled

\* C4: every request sent carries a record with a non-empty pageName, a
\* valid http/https pageUrl and a contactEmail matching the pattern, and
\* its values are the trimmed values of the fields the validator accepted
\* at that click.
RecordInvariant(d) ==
  /\ d.pageName # <<>>
  /\ isValidURL(d.pageUrl)
  /\ isValidEmail(d.contactEmail)

RequestCarriesValidRecord ==
  [][\A r \in inflight' \ inflight :
       r.stage = "fetch" =>
         /\ RecordInvariant(r.data)
         /\ FormValid(r.widget)
         /\ r.data.pageName = trim(fields[r.widget].pageName)
         /\ r.data.pageUrl = trim(fields[r.widget].pageUrl)
         /\ r.data.contactEmail = trim(fields[r.widget].contactEmail)
         /\ r.data.metaBusinessId = trim(fields[r.widget].metaBusinessId)
         /\ r.data.reason = trim(fields[r.widget].reason)
         /\ r.method = "POST"
         /\ r.endpoint = configOf(r.widget).endpoint]_vars

\* a request is in flight whose values were typed with surrounding spaces
RequestCarriesValidRecordWitness ==
  \E r \in inflight :
    /\ r.stage = "fetch"
    /\ fields[r.widget].contactEmail = GoodEmail
    /\ r.data.contactEmail = <<"a", "@", "b", ".", "c">>
    /\ r.data.pageName = <<"A">>

\* the messages of the violated field rules, in the order page name, page
\* URL, contact email
RuleErrors(form) ==
  (IF trim(form.pageName) = <<>> THEN <<NameError>> ELSE <<>>)
    \o (IF isValidURL(trim(form.pageUrl)) THEN <<>> ELSE <<UrlError>>)
    \o (IF isValidEmail(trim(form.contactEmail)) THEN <<>> ELSE <<EmailError>>)

ValidationMatchesRules ==
  \A w \in WidgetIds :
    (Wired(w) /\ trim(fields[w].hp_fullname) = <<>>) =>
      validateForm(fields[w], configOf(w)) =
        [ok |-> RuleErrors(fields[w]) = <<>>, errors |-> RuleErrors(fields[w])]

\* a click on a form with an empty honeypot, a bad URL and a bad email has
\* shown the two messages
ValidationMatchesRulesWitness ==
  \E w \in WidgetIds :
    /\ Wired(w)
    /\ fields[w].hp_fullname = <<>>
    /\ fields[w].pageName = GoodName
    /\ msg[containerOf(w)] = Shown("Page URL is invalid. Contact email is invalid.", TRUE)

\* C7: when a submission completes, the message area shows successMessage
\* in the success colour after an HTTP success status and errorMessage in
\* the error colour after any other status or a transport failure, and the
\* control is enabled again.
CompletionShowsOutcome ==
  [][\A r \in inflight :
       LET w == r.widget
       IN /\ FetchOk(r) =>
               /\ msg'[containerOf(w)] = Shown(configOf(w).successMessage, FALSE)
               /\ ~btn'[w].disabled
          /\ (FetchReject(r) \/ TextSettle(r)) =>
               /\ msg'[containerOf(w)] = Shown(configOf(w).errorMessage, TRUE)
               /\ ~btn'[w].disabled]_vars

\* a submission has completed with success after the template was clicked
\* and its clipboard write settled
CompletionShowsOutcomeWitness ==
  \E w \in WidgetIds :
    /\ Wired(w)
    /\ passed > 0
    /\ RequestsOf(w) = {}
    /\ tplOut[w].display = "block"
    /\ clip[w] = 0
    /\ fields[w].pageName = GoodName
    /\ tplOut[w].textContent = generateEmailTemplate(fields[w])
    /\ msg[containerOf(w)] = Shown(configOf(w).successMessage, FALSE)

\* C8: no retry: the number of requests issued equals the number of submit
\* clicks that passed validation, each of them a POST.
NoRetry ==
  /\ issued = passed
  /\ \A r \in inflight : r.method = "POST" /\ r.id <= passed

\* a submission has failed and no request is in flight
NoRetryWitness ==
  /\ issued = 1
  /\ inflight = {}
  /\ \E w \in WidgetIds :
       Wired(w) /\ msg[containerOf(w)] = Shown(configOf(w).errorMessage, TRUE)

\* C9: a template click and the settling of its clipboard write leave the
\* submit control, the requests in flight and the field values as they were.
TemplateLeavesSubmitState ==
  [][\A w \in WidgetIds :
       (\E b \in BOOLEAN : TemplateClick(w, b) \/ ClipSettle(w, b)) =>
         UNCHANGED <<btn, inflight, fields, issued, handle>>]_vars

\* the template was clicked while a request is in flight and its clipboard
\* write has settled
TemplateLeavesSubmitStateWitness ==
  \E r \in inflight :
    /\ btn[r.widget].disabled
    /\ tplOut[r.widget].display = "block"
    /\ msg[containerOf(r.widget)] = Shown(CopiedMessage, FALSE)

\* an event handler of widget a runs
EventOf(a) ==
  \/ SubmitClick(a)
  \/ \E b \in BOOLEAN : TemplateClick(a, b) \/ ClipSettle(a, b)
  \/ \E r \in RequestsOf(a) : FetchOk(r) \/ FetchReject(r) \/ TextSettle(r)

\* C10: a submit or template event of one widget never changes the message
\* shown for another widget, also when both were initialised with the same
\* containerId.
OtherWidgetMessageUntouched ==
  [][\A a \in WidgetIds : \A b \in WidgetIds :
       (a # b /\ Wired(a) /\ Wired(b) /\ EventOf(a)) =>
         msg'[containerOf(b)] = msg[containerOf(b)]]_vars

\* the number of formCards among the children of container c
FormCount(ch, c) == Cardinality({i \in 1..Len(ch[c]) : ch[c][i].kind = "form"})

\* C11: initVerifiedBadge with a containerId that matches no element mounts
\* nothing, wires nothing and returns no handle; with an existing container
\* it mounts exactly one form into it and returns a handle holding the
\* resolved config and the container.
InitMountsOrRefuses ==
  [][\A o \in OptionSets :
       initVerifiedBadge(o) =>
         LET w == nCalls + 1
             cfg == MergeConfig(defaults, o)
         IN IF cfg.containerId \notin ContainerIds
              THEN /\ handle'[w] = Undefined
                   /\ children' = children
                   /\ msg' = msg
                   /\ btn'[w] = NoButton
                   /\ inflight' = inflight
              ELSE /\ handle'[w] = [kind |-> "handle", config |-> cfg,
                                    container |-> cfg.containerId]
                   /\ children'[cfg.containerId] =
                        Append(children[cfg.containerId], FormNode(w))
                   /\ FormCount(children', cfg.containerId) =
                        FormCount(children, cfg.containerId) + 1
                   /\ \A c \in ContainerIds \ {cfg.containerId} :
                        children'[c] = children[c]
                   /\ ~btn'[w].disabled]_vars

\* one call found no container and returned nothing, another call mounted
\* its form with the overridden options
InitMountsOrRefusesWitness ==
  \E u \in WidgetIds : \E w \in WidgetIds :
    /\ handle[u] = Undefined
    /\ \A c \in ContainerIds : ~InSeq(FormNode(u), children[c])
    /\ Mounted(w)
    /\ configOf(w).submitText = "Send"
    /\ containerOf(w) = "c2"
    /\ children["c2"] = <<FormNode(w)>>

\* the messages validation gives for the text fields alone
TextFieldErrors(form) ==
  (IF trim(form.hp_fullname) # <<>> THEN <<SpamError>> ELSE <<>>) \o RuleErrors(form)

\* C12: the validation result is the same for every value of requireFile
\* and every state of the file input: the file rule never adds an error,
\* also when requireFile is true and no file is selected.
FileRuleInert ==
  \A w \in WidgetIds :
    Wired(w) =>
      \A rf \in BOOLEAN : \A f \in {NoFileInput, 0, 1} :
        validateForm([fields[w] EXCEPT !.supportFile = f],
                     [configOf(w) EXCEPT !.requireFile = rf])
          = [ok |-> TextFieldErrors(fields[w]) = <<>>,
             errors |-> TextFieldErrors(fields[w])]

\* a form with requireFile set and no file selected passed validation and
\* its request was sent
FileRuleInertWitness ==
  \E r \in inflight :
    /\ configOf(r.widget).requireFile
    /\ fields[r.widget].supportFile = 0

\* C13: the resolved configuration of a widget is never changed after
\* initialization, by no click, completion, destroy or initialization of
\* another widget, and the defaults are never changed either.
ConfigNeverMutated ==
  [][/\ defaultsObj = defaults
     /\ defaultsObj' = defaultsObj
     /\ \A w \in WidgetIds : Wired(w) => handle'[w] = handle[w]]_vars

\* a widget with the default configuration has a request in flight after a
\* second widget was initialised with other options
ConfigNeverMutatedWitness ==
  \E u \in WidgetIds : \E w \in WidgetIds :
    /\ u < w
    /\ Wired(u)
    /\ Wired(w)
    /\ configOf(u) = defaults
    /\ configOf(w).submitText = "Send"
    /\ configOf(w).requireFile
    /\ RequestsOf(u) # {}

\* the label a button shows: the white space around the text in the markup
\* of buildForm is not rendered
RenderedLabel(w) ==
  IF btn[w].textContent = InitialLabel(configOf(w))
    THEN configOf(w).submitText
    ELSE btn[w].textContent

\* the state part of C14
IdleOrSubmitting ==
  \A w \in WidgetIds :
    Wired(w) =>
      /\ btn[w].disabled <=> RequestsOf(w) # {}
      /\ btn[w].disabled => btn[w].textContent = "Sending..."
      /\ ~btn[w].disabled => RenderedLabel(w) = configOf(w).submitText

\* C14: the submit control of a widget is disabled, and labelled
\* "Sending...", exactly when one of its requests is in flight; when none is,
\* the control is enabled with the configured label, and a submit click on
\* valid fields then starts a new request.
DisabledIffInFlight ==
  /\ []IdleOrSubmitting
  /\ [][\A w \in WidgetIds :
          (Wired(w) /\ FormValid(w) /\ SubmitClick(w)) =>
            /\ RequestsOf(w) = {}
            /\ \E r \in inflight' \ inflight : r.widget = w /\ r.stage = "fetch"
            /\ btn'[w].disabled]_vars

\* the only widget sent a second request after its first submission failed
DisabledIffInFlightWitness ==
  /\ nCalls = 1
  /\ \E r \in inflight :
       /\ r.id = 2
       /\ btn[r.widget].disabled
       /\ msg[containerOf(r.widget)] = Shown(configOf(r.widget).errorMessage, TRUE)

\* the widgets that were mounted into container c
WidgetsOf(c) == {w \in WidgetIds : Wired(w) /\ containerOf(w) = c}

\* C15: after destroy() nothing mounted by the widget remains in the
\* container, neither the form nor a message area, and no later event of
\* the widget adds to the container: a container all of whose widgets were
\* destroyed has no children.
DestroyLeavesNothing ==
  \A c \in ContainerIds :
    (WidgetsOf(c) # {} /\ \A w \in WidgetsOf(c) : ~Mounted(w)) =>
      children[c] = <<>>

====
